---- MODULE Spec2Model ----
(***************************************************************************)
(* The streaming conversational pipeline of quizmaster-ai:                 *)
(*   - streamChat (services/aiClient.ts): the transport reader and the     *)
(*     line-delimited frame parser;                                        *)
(*   - ChatDrawer (components/ChatDrawer.tsx), in its two variants: the    *)
(*     snapshot variant (first component of the file) and the delta        *)
(*     variant with the requestAnimationFrame batcher (second component);  *)
(*   - the conversation store in localStorage and importBackup.            *)
(*                                                                         *)
(* Text is a sequence of one-character strings.  The response body is a    *)
(* sequence of bytes; an ASCII byte is written as its character, and the   *)
(* two bytes "xC3" "xA9" are the UTF-8 encoding of the character "E9"      *)
(* (U+00E9).  "FFFD" is the replacement character a decoder emits for an   *)
(* invalid byte sequence.                                                  *)
(***************************************************************************)
EXTENDS Naturals, Sequences, FiniteSets, TLC

\* ------------------------------------------------------------------ bounds

\* Longest response body, in frames, that SpecParser enumerates exhaustively.
MaxFrames == 2

\* ------------------------------------------------------------- wire format

NL == "\n"

DataPrefix == <<"d", "a", "t", "a", ":", " ">>

\* line.slice(6)
SliceAt == 6

DoneToken == <<"[", "D", "O", "N", "E", "]">>

\* {"choices":[{"delta":{"content":"
JsonOpen ==
  <<"{", "\"", "c", "h", "o", "i", "c", "e", "s", "\"", ":", "[", "{",
    "\"", "d", "e", "l", "t", "a", "\"", ":", "{",
    "\"", "c", "o", "n", "t", "e", "n", "t", "\"", ":", "\"">>

\* "}}]}
JsonClose == <<"\"", "}", "}", "]", "}">>

\* A line whose payload JSON.parse rejects: data: {"cho
MalformedPayload == <<"{", "\"", "c", "h", "o">>

StartsWith(s, p) == Len(s) >= Len(p) /\ SubSeq(s, 1, Len(p)) = p

EndsWith(s, p) ==
  Len(s) >= Len(p) /\ SubSeq(s, Len(s) - Len(p) + 1, Len(s)) = p

Slice(s, n) == SubSeq(s, n + 1, Len(s))

RECURSIVE Flatten(_)
Flatten(ss) == IF ss = <<>> THEN <<>> ELSE Head(ss) \o Flatten(Tail(ss))

\* The frames a provider sends.  kind: "delta" (a payload line with content),
\* "malformed" (a data line that is not JSON), "done" (the sentinel line),
\* "blank" (the empty line that separates events).
DeltaFrame(c) == [kind |-> "delta", content |-> c]
MalformedFrame == [kind |-> "malformed", content |-> <<>>]
DoneFrame == [kind |-> "done", content |-> <<>>]
BlankFrame == [kind |-> "blank", content |-> <<>>]

FrameKinds ==
  { DeltaFrame(<<"a">>), DeltaFrame(<<"E9">>), MalformedFrame, DoneFrame,
    BlankFrame }

\* TextEncoder on the provider's side: the bytes of a text.
RECURSIVE Utf8(_)
Utf8(t) ==
  IF t = <<>> THEN <<>>
  ELSE (IF Head(t) = "E9" THEN <<"xC3", "xA9">> ELSE <<Head(t)>>)
       \o Utf8(Tail(t))

FrameLine(f) ==
  CASE f.kind = "delta" -> DataPrefix \o JsonOpen \o f.content \o JsonClose
    [] f.kind = "malformed" -> DataPrefix \o MalformedPayload
    [] f.kind = "done" -> DataPrefix \o DoneToken
    [] OTHER -> <<>>

\* The bytes of a response body: every frame is one line ended by a newline.
RECURSIVE Wire(_)
Wire(fs) ==
  IF fs = <<>> THEN <<>>
  ELSE Utf8(FrameLine(Head(fs))) \o <<NL>> \o Wire(Tail(fs))

\* --------------------------------------------------------------- streamChat

IsLead(b) == b = "xC3"
IsCont(b) == b = "xA9"

\* decoder.decode(value) without { stream: true }: every chunk is decoded on
\* its own, so a lead byte at the end of a chunk becomes U+FFFD.
TextDecodeNoStream(pending, chunk) ==
  LET n == Len(chunk)
      out(i) ==
        IF IsLead(chunk[i])
          THEN (IF i < n /\ IsCont(chunk[i + 1]) THEN "E9" ELSE "FFFD")
        ELSE IF IsCont(chunk[i])
          THEN (IF i > 1 /\ IsLead(chunk[i - 1]) THEN "" ELSE "FFFD")
        ELSE chunk[i]
  IN [text |-> SelectSeq([i \in 1..n |-> out(i)], LAMBDA c : c # ""),
      pending |-> <<>>]

\* decoder.decode(value, { stream: true }): the decoder keeps an incomplete
\* byte sequence at the end of a chunk and completes it with the next chunk.
TextDecode(pending, chunk) ==
  LET bytes == pending \o chunk
      n == Len(bytes)
      out(i) ==
        IF IsLead(bytes[i])
          THEN (IF i = n THEN ""
                ELSE IF IsCont(bytes[i + 1]) THEN "E9" ELSE "FFFD")
        ELSE IF IsCont(bytes[i])
          THEN (IF i > 1 /\ IsLead(bytes[i - 1]) THEN "" ELSE "FFFD")
        ELSE bytes[i]
  IN [text |-> SelectSeq([i \in 1..n |-> out(i)], LAMBDA c : c # ""),
      pending |-> IF n > 0 /\ IsLead(bytes[n]) THEN <<bytes[n]>> ELSE <<>>]

\* buffer.split('\n')
RECURSIVE Split(_)
Split(s) ==
  LET P == {i \in 1..Len(s) : s[i] = NL}
  IN IF P = {} THEN <<s>>
     ELSE LET p == CHOOSE i \in P : \A j \in P : i <= j
          IN <<SubSeq(s, 1, p - 1)>> \o Split(SubSeq(s, p + 1, Len(s)))

\* A parser that hands the payload it cannot parse to onDelta as it is.
JsonContentRaw(data) ==
  IF /\ StartsWith(data, JsonOpen)
     /\ EndsWith(data, JsonClose)
     /\ Len(data) >= Len(JsonOpen) + Len(JsonClose)
  THEN SubSeq(data, Len(JsonOpen) + 1, Len(data) - Len(JsonClose))
  ELSE data

\* JSON.parse(data), then json.choices?.[0]?.delta?.content || '': the
\* content of a payload of the provider's shape, and the empty text for every
\* other data (JSON.parse throws and the catch ignores it, or the parsed value
\* has no content).
JsonContent(data) ==
  IF /\ StartsWith(data, JsonOpen)
     /\ EndsWith(data, JsonClose)
     /\ Len(data) >= Len(JsonOpen) + Len(JsonClose)
  THEN LET c == SubSeq(data, Len(JsonOpen) + 1, Len(data) - Len(JsonClose))
       IN IF \E i \in 1..Len(c) : c[i] \in {"\"", "\\", NL} THEN <<>> ELSE c
  ELSE <<>>

IsDataLine(line) == StartsWith(line, DataPrefix)

IsDoneLine(line) == IsDataLine(line) /\ Slice(line, SliceAt) = DoneToken

\* The for loop over the complete lines of one chunk: the deltas handed to
\* onDelta, in order, and whether the loop returned at the sentinel.
RECURSIVE ForLines(_)

\* A sentinel that ends the exchange after the lines that follow it in the
\* chunk were processed too.
SentinelContinue(following) ==
  [deltas |-> ForLines(following).deltas, done |-> TRUE]

\* if (data === '[DONE]') return: the lines that follow are not looked at.
SentinelReturn(following) == [deltas |-> <<>>, done |-> TRUE]

ForLines(lines) ==
  IF lines = <<>> THEN [deltas |-> <<>>, done |-> FALSE]
  ELSE LET line == Head(lines)
       IN IF IsDoneLine(line) THEN SentinelReturn(Tail(lines))
          ELSE LET d == IF IsDataLine(line)
                          THEN JsonContent(Slice(line, SliceAt)) ELSE <<>>
                   r == ForLines(Tail(lines))
               IN [deltas |-> (IF d # <<>> THEN <<d>> ELSE <<>>) \o r.deltas,
                   done |-> r.done]

\* buffer = lines.pop() || '': the last piece is the incomplete line.
TailOf(pieces) == pieces[Len(pieces)]

\* A stream end that parses the incomplete line left in the buffer.
AtEndParseTail(buf) == ForLines(<<buf>>).deltas

\* if (done) break: the deltas handed to onDelta when the stream ends; the
\* buffer is not looked at.
AtEnd(buf) == <<>>

\* One iteration of the read loop on a chunk that reader.read() returned.
ReadIteration(buf, pending, chunk) ==
  LET dec == TextDecode(pending, chunk)
      pieces == Split(buf \o dec.text)
      run == ForLines(SubSeq(pieces, 1, Len(pieces) - 1))
  IN [buffer |-> TailOf(pieces), pending |-> dec.pending,
      deltas |-> run.deltas, done |-> run.done]

\* ------------------------------------------------------- ChatDrawer helpers

\* The progress marker U+25CF shown at the end of a streaming message.
Marker == "*"

\* The text of the welcome message.
Greeting == <<"WELCOME">>

\* `Connection to the AI failed: ${e.message}`
ErrorText(kind) == <<"FAILED", kind>>

Msg(role, text, ts, status) ==
  [role |-> role, text |-> text, timestamp |-> ts, status |-> status]

Last(s) == s[Len(s)]

\* text.trim()
RECURSIVE TrimLeft(_)
TrimLeft(t) == IF t # <<>> /\ Head(t) = " " THEN TrimLeft(Tail(t)) ELSE t

RECURSIVE TrimRight(_)
TrimRight(t) ==
  IF t # <<>> /\ Last(t) = " " THEN TrimRight(SubSeq(t, 1, Len(t) - 1)) ELSE t

Trim(t) == TrimRight(TrimLeft(t))

\* text.endsWith(marker) ? text.slice(0, -1) : text
StripMarker(t) ==
  IF t # <<>> /\ Last(t) = Marker THEN SubSeq(t, 1, Len(t) - 1) ELSE t

IsStreamingLast(h) ==
  h # <<>> /\ Last(h).role = "model" /\ Last(h).status = "streaming"

\* The updater of flushStreamBuffer: append the flushed text to the last
\* message when it is the streaming one.
ApplyDelta(h, d) ==
  IF IsStreamingLast(h)
  THEN [h EXCEPT ![Len(h)].text = StripMarker(@) \o d \o <<Marker>>]
  ELSE h

\* The updater of the snapshot variant's callback: overwrite the text of the
\* last message when it is the streaming one.
ApplySnapshot(h, snapshot) ==
  IF IsStreamingLast(h)
  THEN [h EXCEPT ![Len(h)].text = snapshot \o <<Marker>>]
  ELSE h

RECURSIVE FoldSnapshots(_, _)
FoldSnapshots(h, ds) ==
  IF ds = <<>> THEN h ELSE FoldSnapshots(ApplySnapshot(h, Head(ds)), Tail(ds))

\* The updater without lastMsg.status = 'done'.
MarkDoneTextOnly(h) ==
  IF h # <<>> /\ Last(h).role = "model"
  THEN [h EXCEPT ![Len(h)].text = StripMarker(@)]
  ELSE h

\* The updater run when the stream completed: drop the marker and mark done.
MarkDone(h) ==
  IF h # <<>> /\ Last(h).role = "model"
  THEN [h EXCEPT ![Len(h)].text = StripMarker(@), ![Len(h)].status = "done"]
  ELSE h

\* JSON.stringify of a message list: one tuple of fields per message; a
\* message without status is written without the field ("none").
JsonStringify(h) ==
  [i \in 1..Len(h) |-> <<h[i].role, h[i].text, h[i].timestamp, h[i].status>>]

\* JSON.parse of a stored message list.
JsonParse(j) == [i \in 1..Len(j) |-> Msg(j[i][1], j[i][2], j[i][3], j[i][4])]

CompositeKey == "qb_chat_b1_q1"
LegacyKey == "qb_chat_q1"
StoreKeys == {CompositeKey, LegacyKey}

\* bankId ? `qb_chat_${bankId}_${question.id}` : `qb_chat_${question.id}`
StorageKey(bank) == IF bank # "" THEN CompositeKey ELSE LegacyKey

\* localStorage.setItem(key, JSON.stringify(h)); a stored value is <<text>>,
\* a missing one <<>>.
SetItem(st, key, h) == [st EXCEPT ![key] = <<JsonStringify(h)>>]

\* The index of the last user message, 0 when there is none.
LastUserIndex(h) ==
  LET U == {i \in 1..Len(h) : h[i].role = "user"}
  IN IF U = {} THEN 0 ELSE CHOOSE i \in U : \A j \in U : j <= i

\* history.filter((m, idx) => !(m.role === 'model' && idx > indexOf(lastUserMsg)))
RECURSIVE FilterFrom(_, _, _)
FilterFrom(h, u, i) ==
  IF i > Len(h) THEN <<>>
  ELSE (IF h[i].role = "model" /\ i > u THEN <<>> ELSE <<h[i]>>)
       \o FilterFrom(h, u, i + 1)

RetryTrim(h) == FilterFrom(h, LastUserIndex(h), 1)

\* mockResponse, cut to a few characters, and its batch size.
MockResponse == <<"m", "o", "c", "k", "!">>
BatchSize == 3

Min(a, b) == IF a < b THEN a ELSE b

\* ------------------------------------------------------------------- state

VARIABLES
  frames,        \* the frames of the response body being read
  rest,          \* the bytes of the body the reader has not returned yet
  decPending,    \* the TextDecoder's incomplete byte sequence
  buffer,        \* streamChat's buffer: the incomplete last line
  emitted,       \* the deltas handed to onDelta by this call, in order
  outcome,       \* "idle", "fetching", "reading", "mock", "sentinel",
                 \* "eof", "error": where the current call of streamChat is
  mode,          \* "snapshot" or "delta": the variant of ChatDrawer
  bankId,        \* the bankId prop, "" when absent
  apiKey,        \* whether localStorage holds qb_api_key
  store,         \* localStorage, the two chat keys of the question
  mounted,       \* whether a ChatDrawer is mounted
  history,       \* the history state of the mounted component
  loading,       \* the loading state of the mounted component
  exLive,        \* whether the component that owns the current exchange and
                 \* the batcher refs is still mounted
  exNewHistory,  \* newHistory in the closure of the sendMessage in flight
  exRetry,       \* what retryLastMessage saved before it called the
                 \* sendMessage that began the exchange, while the exchange
                 \* is undisturbed: <<>> when a send began it, and after an
                 \* unmount, a confirmed clear or a rejection
  exCleared,     \* whether clearChatHistory was confirmed since the last
                 \* exchange began
  streamBuffer,  \* streamBufferRef.current
  timer,         \* whether streamUpdateTimerRef holds a pending frame request
  delivered,     \* the text flushStreamBuffer handed to setHistory, exchange
  lastPayload,   \* the payload of the last callback invocation, exchange
  lastCall,      \* the handler the last step ran, the text it passed to
                 \* sendMessage, and whether it acted
  writes,        \* what retryLastMessage saved before it called sendMessage,
                 \* when the last step was a retry
  sends,         \* the exchanges started so far
  mounts,        \* the mounts so far
  request,       \* a message content on its way into the request body: the
                 \* content, whether the sanitizer takes its fallback path,
                 \* and the results of the sanitizer's successive applications
  prompt         \* the payload given to buildSystemPrompt (bankMeta,
                 \* questionContext, aiSettings) and the lines of the text
                 \* it returned

pvars == <<frames, rest, decPending, buffer, emitted, outcome>>

cvars ==
  <<mode, bankId, apiKey, store, mounted, history, loading, exLive,
    exNewHistory, exCleared, exRetry, streamBuffer, timer, delivered, lastPayload,
    lastCall, writes, sends, mounts>>

vars ==
  <<frames, rest, decPending, buffer, emitted, outcome, mode, bankId, apiKey,
    store, mounted, history, loading, exLive, exNewHistory, exCleared, exRetry,
    streamBuffer, timer, delivered, lastPayload, lastCall, writes, sends,
    mounts, request, prompt>>

RECURSIVE SeqsUpTo(_, _)
SeqsUpTo(S, n) ==
  IF n = 0 THEN {<<>>}
  ELSE LET shorter == SeqsUpTo(S, n - 1)
       IN shorter \cup {Append(s, x) : s \in shorter, x \in S}

\* The bytes the reader has returned so far.
Delivered == SubSeq(Wire(frames), 1, Len(Wire(frames)) - Len(rest))

\* A handler call: the text passed to sendMessage (empty for the handlers that
\* pass none), and whether the handler went past its guards.
CallWith(op, text, accepted) == [op |-> op, text |-> text, accepted |-> accepted]

Call(op, accepted) == CallWith(op, <<>>, accepted)

\* Date.now(): a clock that advances with every exchange and every mount;
\* the messages of earlier sessions carry 0.
Now == sends + mounts + 1

\* No message content is being prepared.
NoRequest == [content |-> <<>>, fallback |-> FALSE, cleaned |-> <<>>]

\* An optional value: <<>> when it is undefined, <<v>> when it is v.
None == <<>>
Some(v) == <<v>>

NoPrompt ==
  [bankMeta |-> None, questionContext |-> None, aiSettings |-> None,
   text |-> <<>>]

\* A component that was never mounted, with nothing in flight.
ChatIdle ==
  /\ mounted = FALSE
  /\ history = <<>>
  /\ loading = FALSE
  /\ exLive = FALSE
  /\ exNewHistory = <<>>
  /\ exCleared = FALSE
  /\ exRetry = <<>>
  /\ streamBuffer = <<>>
  /\ timer = FALSE
  /\ delivered = <<>>
  /\ lastPayload = <<>>
  /\ lastCall = Call("init", FALSE)
  /\ writes = <<>>
  /\ sends = 0
  /\ mounts = 0

\* ------------------------------------------------- streamChat read standalone

\* Bodies longer than MaxFrames that the claims name.
MalformedBody ==
  <<DeltaFrame(<<"a">>), MalformedFrame, DeltaFrame(<<"E9">>), DoneFrame>>

\* A credential check that lets every call through.
MissingKeyIgnored(key) == FALSE

\* if (!apiKey): nothing is stored under qb_api_key.
MissingKey(key) == ~key

ParserInit ==
  /\ frames \in SeqsUpTo(FrameKinds, MaxFrames) \cup {MalformedBody}
  /\ rest = Wire(frames)
  /\ decPending = <<>>
  /\ buffer = <<>>
  /\ emitted = <<>>
  /\ outcome = "called"
  /\ mode = "delta"
  /\ bankId = "b1"
  /\ apiKey \in BOOLEAN
  /\ store = [k \in StoreKeys |-> <<>>]
  /\ ChatIdle
  /\ request = NoRequest
  /\ prompt = NoPrompt

\* streamChat is entered: without a credential it throws the configuration
\* error at once; with one it builds the request and calls fetch.
StreamChatCall ==
  /\ outcome = "called"
  /\ outcome' = IF MissingKey(apiKey) THEN "config" ELSE "fetching"
  /\ UNCHANGED <<frames, rest, decPending, buffer, emitted>>
  /\ UNCHANGED cvars
  /\ UNCHANGED <<request, prompt>>

\* fetch resolves with an ok response whose body has a reader.
ParserResponse ==
  /\ outcome = "fetching"
  /\ outcome' = "reading"
  /\ UNCHANGED <<frames, rest, decPending, buffer, emitted>>
  /\ UNCHANGED cvars
  /\ UNCHANGED <<request, prompt>>

\* reader.read() returns the next n bytes.
ParserRead(n) ==
  /\ outcome = "reading"
  /\ n \in 1..Len(rest)
  /\ LET it == ReadIteration(buffer, decPending, SubSeq(rest, 1, n))
     IN /\ buffer' = it.buffer
        /\ decPending' = it.pending
        /\ emitted' = emitted \o it.deltas
        /\ outcome' = IF it.done THEN "sentinel" ELSE "reading"
  /\ rest' = Slice(rest, n)
  /\ UNCHANGED frames
  /\ UNCHANGED cvars
  /\ UNCHANGED <<request, prompt>>

\* reader.read() returns done: the loop breaks and streamChat resolves.
ParserEnd ==
  /\ outcome = "reading"
  /\ outcome' = "eof"
  /\ emitted' = emitted \o AtEnd(buffer)
  /\ UNCHANGED <<frames, rest, decPending, buffer>>
  /\ UNCHANGED cvars
  /\ UNCHANGED <<request, prompt>>

\* fetch rejects, the response is not ok or has no body, or reader.read()
\* rejects: streamChat rejects.
ParserFail ==
  /\ outcome \in {"fetching", "reading"}
  /\ outcome' = "error"
  /\ UNCHANGED <<frames, rest, decPending, buffer, emitted>>
  /\ UNCHANGED cvars
  /\ UNCHANGED <<request, prompt>>

ParserNext ==
  \/ StreamChatCall
  \/ ParserResponse
  \/ \E n \in 1..Len(rest) : ParserRead(n)
  \/ ParserEnd
  \/ ParserFail

SpecParser == ParserInit /\ [][ParserNext]_vars

\* --------------------------------------------------------------- ChatDrawer

\* Bound of Spec: the exchanges started plus the mounts of a behaviour.
MaxEvents == 3

\* What the user types or clicks: a blank text, and a question to trim.
UserTexts == {<<" ">>, <<"r", " ">>}

\* The conversation an earlier session left in the store.
PriorConversation ==
  <<Msg("model", Greeting, 0, "done"), Msg("user", <<"q">>, 0, "done"),
    Msg("model", <<"a">>, 0, "done")>>

\* The response bodies the provider answers with.
HelloBody ==
  <<DeltaFrame(<<"H", "e", "l">>), DeltaFrame(<<"l", "o", ",", " ">>),
    DeltaFrame(<<"w", "o", "r", "l", "d", "!">>), DoneFrame>>

\* A body that ends without the sentinel.
UnterminatedBody == <<DeltaFrame(<<"a">>)>>

ChatBodies == {HelloBody, UnterminatedBody}

\* The chats of a backup file: one exported from a legacy conversation, and
\* one whose last message was written while it was streaming.
LegacyChat ==
  <<Msg("user", <<"q">>, 0, "none"), Msg("model", <<"a">>, 0, "none")>>

InterruptedChat ==
  <<Msg("user", <<"q">>, 0, "none"),
    Msg("model", <<"a", Marker>>, 0, "streaming")>>

\* The backup files: data.chats with one chat, under a bank or _legacy.
Backups ==
  { [bank |-> "_legacy", messages |-> LegacyChat],
    [bank |-> "b1", messages |-> InterruptedChat] }

InFlight == outcome \in {"fetching", "reading", "mock"}

Init ==
  /\ mode \in {"snapshot", "delta"}
  /\ bankId = "b1"
  /\ apiKey \in BOOLEAN
  /\ store \in { [k \in StoreKeys |-> <<>>],
                 [k \in StoreKeys |->
                    IF k = StorageKey(bankId)
                      THEN <<JsonStringify(PriorConversation)>> ELSE <<>>] }
  /\ frames = <<>>
  /\ rest = <<>>
  /\ decPending = <<>>
  /\ buffer = <<>>
  /\ emitted = <<>>
  /\ outcome = "idle"
  /\ ChatIdle
  /\ request = NoRequest
  /\ prompt = NoPrompt

\* The key the load effect reads.
LoadedKey(bank) == StorageKey(bank)

\* A load that takes a stored empty list for a missing record.
LoadHistoryOrGreeting(st, bank, ts) ==
  LET saved == st[LoadedKey(bank)]
  IN IF saved # <<>> /\ saved[1] # <<>>
     THEN JsonParse(saved[1])
     ELSE <<Msg("model", Greeting, ts, "done")>>

\* The conversation the load effect puts into memory: the parsed record when
\* there is one, else the welcome message.
LoadHistory(st, bank, ts) ==
  LET saved == st[LoadedKey(bank)]
  IN IF saved # <<>>
     THEN JsonParse(saved[1])
     ELSE <<Msg("model", Greeting, ts, "done")>>

\* A component is mounted: its state and its refs are new, and the load
\* effect runs.  While the exchange of an earlier component is in flight the
\* model keeps that exchange and its refs in view; otherwise what is left of
\* the last exchange is dropped.
Mount ==
  /\ ~mounted
  /\ sends + mounts < MaxEvents
  /\ mounted' = TRUE
  /\ mounts' = mounts + 1
  /\ loading' = FALSE
  /\ lastCall' = Call("mount", TRUE)
  /\ LET saved == store[LoadedKey(bankId)]
         loaded == LoadHistory(store, bankId, Now)
     IN /\ history' = loaded
        /\ writes' = <<>>
        /\ IF saved # <<>>
           THEN UNCHANGED store
           ELSE store' = SetItem(store, StorageKey(bankId), loaded)
  /\ IF InFlight
     THEN UNCHANGED <<pvars, exLive, exNewHistory, exCleared, exRetry, streamBuffer, timer,
                      delivered, lastPayload>>
     ELSE /\ exLive' = TRUE
          /\ exNewHistory' = <<>>
          /\ exCleared' = FALSE
          /\ exRetry' = <<>>
          /\ streamBuffer' = <<>>
          /\ timer' = FALSE
          /\ delivered' = <<>>
          /\ lastPayload' = <<>>
          /\ frames' = <<>>
          /\ rest' = <<>>
          /\ decPending' = <<>>
          /\ buffer' = <<>>
          /\ emitted' = <<>>
          /\ outcome' = "idle"
  /\ UNCHANGED <<mode, bankId, apiKey, sends>>
  /\ UNCHANGED <<request, prompt>>

\* The component is closed: its state is gone, and the cleanup effect of the
\* delta variant cancels the pending frame request.
Unmount ==
  /\ mounted
  /\ mounted' = FALSE
  /\ history' = <<>>
  /\ loading' = FALSE
  /\ exLive' = FALSE
  /\ timer' = FALSE
  /\ exRetry' = <<>>
  /\ lastCall' = Call("unmount", TRUE)
  /\ writes' = <<>>
  /\ UNCHANGED <<pvars, mode, bankId, apiKey, store, exNewHistory, exCleared,
                 streamBuffer, delivered, lastPayload, sends, mounts>>
  /\ UNCHANGED <<request, prompt>>

\* if (!text.trim() || loading) return;  without the loading test
SendRejectedBlankOnly(text, ld) == Trim(text) = <<>>

\* if (!text.trim() || loading) return;
SendRejected(text, ld) == Trim(text) = <<>> \/ ld

\* streamBufferRef.current = delta
AppendOverwrites(sb, d) == d

\* streamBufferRef.current += delta
AppendStreamDelta(sb, d) == sb \o d

RECURSIVE AppendAll(_, _)
AppendAll(sb, ds) ==
  IF ds = <<>> THEN sb ELSE AppendAll(AppendStreamDelta(sb, Head(ds)), Tail(ds))

\* updatedHistory = [...newHistory, errorMsg]
ErrorHistory(nh, kind, ts) ==
  Append(nh, Msg("model", ErrorText(kind), ts, "error"))

\* saveChatHistory(streamingHistory): the placeholder is saved too
SavedOnSendWithPlaceholder(newHistory, streamingHistory) == streamingHistory

\* saveChatHistory(newHistory) before the placeholder is created
SavedOnSend(newHistory, streamingHistory) == newHistory

\* sendMessage past its guard, called with `h` as the history of its closure,
\* up to the first await of streamChat or mockStreamChat; `earlier` is what
\* the calling handler saved before.
BeginExchange(h, text, earlier) ==
  LET userMsg == Msg("user", Trim(text), Now, "done")
      newHistory == Append(h, userMsg)
      aiMsg == Msg("model", <<Marker>>, Now, "streaming")
      streamingHistory == Append(newHistory, aiMsg)
      first == SubSeq(MockResponse, 1, Min(BatchSize, Len(MockResponse)))
  IN /\ store' = SetItem(store, StorageKey(bankId),
                        SavedOnSend(newHistory, streamingHistory))
     /\ writes' = earlier
     /\ loading' = TRUE
     /\ exNewHistory' = newHistory
     /\ exCleared' = FALSE
     /\ exRetry' = earlier
     /\ exLive' = TRUE
     /\ delivered' = <<>>
     /\ sends' = sends + 1
     /\ frames' = <<>>
     /\ decPending' = <<>>
     /\ buffer' = <<>>
     /\ IF apiKey
        THEN /\ history' = streamingHistory
             /\ streamBuffer' = <<>>
             /\ timer' = (exLive /\ timer)
             /\ emitted' = <<>>
             /\ lastPayload' = <<>>
             /\ rest' = <<>>
             /\ outcome' = "fetching"
        ELSE /\ emitted' = <<first>>
             /\ lastPayload' = first
             /\ rest' = Slice(MockResponse, Len(first))
             /\ outcome' = "mock"
             /\ IF mode = "snapshot"
                THEN /\ history' = ApplySnapshot(streamingHistory, first)
                     /\ streamBuffer' = <<>>
                     /\ timer' = (exLive /\ timer)
                ELSE /\ history' = streamingHistory
                     /\ streamBuffer' = AppendStreamDelta(<<>>, first)
                     /\ timer' = TRUE

\* The user sends `text` (the send button or a quick prompt).
SendMessage(text) ==
  /\ mounted
  /\ IF SendRejected(text, loading)
     THEN /\ lastCall' = CallWith("send", text, FALSE)
          /\ writes' = <<>>
          /\ UNCHANGED <<pvars, store, history, loading, exLive, exNewHistory, exCleared, exRetry,
                         streamBuffer, timer, delivered, lastPayload, sends>>
     ELSE /\ sends + mounts < MaxEvents
          /\ InFlight => exLive
          /\ lastCall' = CallWith("send", text, TRUE)
          /\ BeginExchange(history, text, <<>>)
  /\ UNCHANGED <<mode, bankId, apiKey, mounted, mounts>>
  /\ UNCHANGED <<request, prompt>>

\* The retry button of an error message.
RetryLastMessage ==
  /\ mounted
  /\ \E i \in 1..Len(history) : history[i].status = "error"
  /\ LET u == LastUserIndex(history)
         trimmed == RetryTrim(history)
     IN IF u = 0
        THEN /\ lastCall' = Call("retry", FALSE)
             /\ writes' = <<>>
             /\ UNCHANGED <<pvars, store, history, loading, exLive,
                            exNewHistory, exCleared, exRetry, streamBuffer, timer, delivered,
                            lastPayload, sends>>
        ELSE /\ lastCall' = CallWith("retry", history[u].text, TRUE)
             /\ IF SendRejected(history[u].text, loading)
                THEN /\ history' = trimmed
                     /\ store' = SetItem(store, StorageKey(bankId), trimmed)
                     /\ writes' = <<trimmed>>
                     /\ UNCHANGED <<pvars, loading, exLive, exNewHistory, exCleared, exRetry,
                                    streamBuffer, timer, delivered,
                                    lastPayload, sends>>
                ELSE /\ sends + mounts < MaxEvents
                     /\ InFlight => exLive
                     /\ BeginExchange(history, history[u].text, <<trimmed>>)
  /\ UNCHANGED <<mode, bankId, apiKey, mounted, mounts>>
  /\ UNCHANGED <<request, prompt>>

\* Clearing whatever the answer to window.confirm is.
ClearsUnasked(confirmed) == TRUE

\* if (window.confirm(...)) { ... }
ClearsWhen(confirmed) == confirmed

\* The clear button, and the answer to window.confirm.
ClearChatHistory(confirmed) ==
  /\ mounted
  /\ history # <<>>
  /\ lastCall' = Call("clear", confirmed)
  /\ writes' = <<>>
  /\ IF ClearsWhen(confirmed)
     THEN /\ history' = <<>>
          /\ store' = [store EXCEPT ![StorageKey(bankId)] = <<>>]
          /\ exCleared' = TRUE
          /\ exRetry' = <<>>
     ELSE UNCHANGED <<history, store, exCleared, exRetry>>
  /\ UNCHANGED <<pvars, mode, bankId, apiKey, mounted, loading, exLive,
                 exNewHistory, streamBuffer, timer, delivered, lastPayload,
                 sends, mounts>>
  /\ UNCHANGED <<request, prompt>>

\* flushStreamBuffer that leaves the frame request pending.
FlushKeepsTimer(sb, tm) == [buffer |-> <<>>, timer |-> tm, applied |-> sb]

\* flushStreamBuffer on the refs: the buffer is taken and emptied, its text
\* handed to setHistory, and a pending frame request is cancelled.
FlushStreamBuffer(sb, tm) == [buffer |-> <<>>, timer |-> FALSE, applied |-> sb]

\* The callback of the variant runs on each delta of `ds`; when `finished`,
\* streamChat has resolved and sendMessage runs to its end.
Deliver(ds, finished) ==
  LET h0 == IF mode = "snapshot" THEN FoldSnapshots(history, ds) ELSE history
      sb0 == IF mode = "delta" THEN AppendAll(streamBuffer, ds)
             ELSE streamBuffer
      tm0 == IF mode = "delta" THEN (timer \/ ds # <<>>) ELSE timer
      f == FlushStreamBuffer(sb0, tm0)
      h1 == IF mode = "delta" /\ f.applied # <<>>
              THEN ApplyDelta(h0, f.applied) ELSE h0
      h2 == MarkDone(h1)
  IN /\ emitted' = emitted \o ds
     /\ lastPayload' = IF ds # <<>> THEN Last(ds) ELSE lastPayload
     /\ IF finished
        THEN /\ history' = IF exLive THEN h2 ELSE history
             /\ store' = IF exLive
                           THEN SetItem(store, StorageKey(bankId), h2)
                           ELSE store
             /\ writes' = <<>>
             /\ loading' = IF exLive THEN FALSE ELSE loading
             /\ streamBuffer' = IF mode = "delta" THEN f.buffer ELSE sb0
             /\ timer' = IF mode = "delta" THEN f.timer ELSE tm0
             /\ delivered' = IF mode = "delta" THEN delivered \o f.applied
                             ELSE delivered
        ELSE /\ history' = IF exLive THEN h0 ELSE history
             /\ streamBuffer' = sb0
             /\ timer' = tm0
             /\ writes' = <<>>
             /\ UNCHANGED <<store, loading, delivered>>

\* streamChat or mockStreamChat rejected: the catch block and the finally.
Reject(kind) ==
  LET updated == ErrorHistory(exNewHistory, kind, Now)
  IN /\ history' = IF exLive THEN updated ELSE history
     /\ store' = SetItem(store, StorageKey(bankId), updated)
     /\ writes' = <<>>
     /\ loading' = IF exLive THEN FALSE ELSE loading
     /\ outcome' = "error"
     /\ exRetry' = <<>>
     /\ UNCHANGED <<streamBuffer, timer, delivered, lastPayload, emitted>>

\* fetch resolved with an ok response and a body.
FetchOk(body) ==
  /\ outcome = "fetching"
  /\ frames' = body
  /\ rest' = Wire(body)
  /\ outcome' = "reading"
  /\ lastCall' = Call("fetch", TRUE)
  /\ writes' = <<>>
  /\ UNCHANGED <<decPending, buffer, emitted, mode, bankId, apiKey, store,
                 mounted, history, loading, exLive, exNewHistory, exCleared, exRetry,
                 streamBuffer, timer, delivered, lastPayload, sends, mounts>>
  /\ UNCHANGED <<request, prompt>>

\* fetch rejected, or the response was not ok.
FetchFail ==
  /\ outcome = "fetching"
  /\ Reject("http")
  /\ lastCall' = Call("fetch", FALSE)
  /\ UNCHANGED <<frames, rest, decPending, buffer, mode, bankId, apiKey,
                 mounted, exLive, exNewHistory, exCleared, sends, mounts>>
  /\ UNCHANGED <<request, prompt>>

\* reader.read() returns the bytes up to the n-th, a newline.
ReadChunk(n) ==
  /\ outcome = "reading"
  /\ n \in 1..Len(rest)
  /\ rest[n] = NL
  /\ LET it == ReadIteration(buffer, decPending, SubSeq(rest, 1, n))
     IN /\ buffer' = it.buffer
        /\ decPending' = it.pending
        /\ outcome' = IF it.done THEN "sentinel" ELSE "reading"
        /\ Deliver(it.deltas, it.done)
  /\ rest' = Slice(rest, n)
  /\ lastCall' = Call("read", TRUE)
  /\ UNCHANGED <<frames, mode, bankId, apiKey, mounted, exLive, exNewHistory, exCleared, exRetry,
                 sends, mounts>>
  /\ UNCHANGED <<request, prompt>>

\* reader.read() returns done, after the last byte of the body.
ReadEnd ==
  /\ outcome = "reading"
  /\ rest = <<>>
  /\ outcome' = "eof"
  /\ Deliver(<<>>, TRUE)
  /\ lastCall' = Call("end", TRUE)
  /\ UNCHANGED <<frames, rest, decPending, buffer, mode, bankId, apiKey,
                 mounted, exLive, exNewHistory, exCleared, exRetry, sends, mounts>>
  /\ UNCHANGED <<request, prompt>>

\* reader.read() rejects.
ReadFail ==
  /\ outcome = "reading"
  /\ Reject("read")
  /\ lastCall' = Call("read", FALSE)
  /\ UNCHANGED <<frames, rest, decPending, buffer, mode, bankId, apiKey,
                 mounted, exLive, exNewHistory, exCleared, sends, mounts>>
  /\ UNCHANGED <<request, prompt>>

\* The timer of mockStreamChat fires: the next batch, and the end after the
\* last one.
MockTick ==
  /\ outcome = "mock"
  /\ LET batch == SubSeq(rest, 1, Min(BatchSize, Len(rest)))
         left == Slice(rest, Len(batch))
     IN /\ rest' = left
        /\ outcome' = IF left = <<>> THEN "eof" ELSE "mock"
        /\ Deliver(<<batch>>, left = <<>>)
  /\ lastCall' = Call("mock", TRUE)
  /\ UNCHANGED <<frames, decPending, buffer, mode, bankId, apiKey, mounted,
                 exLive, exNewHistory, exCleared, exRetry, sends, mounts>>
  /\ UNCHANGED <<request, prompt>>

\* The animation frame fires: flushStreamBuffer, then the timer ref is reset.
AnimationFrame ==
  /\ timer
  /\ LET f == FlushStreamBuffer(streamBuffer, timer)
     IN /\ timer' = FALSE
        /\ streamBuffer' = f.buffer
        /\ delivered' = delivered \o f.applied
        /\ history' = IF exLive /\ f.applied # <<>>
                        THEN ApplyDelta(history, f.applied) ELSE history
  /\ lastCall' = Call("frame", TRUE)
  /\ writes' = <<>>
  /\ UNCHANGED <<pvars, mode, bankId, apiKey, store, mounted, loading, exLive,
                 exNewHistory, exCleared, exRetry, lastPayload, sends, mounts>>
  /\ UNCHANGED <<request, prompt>>

\* The messages of `old` and `new` keyed by timestamp and text, in the order
\* of first insertion, each key with the message inserted last.
MergeMessages(old, new) ==
  LET all == old \o new
      Key(m) == <<m.timestamp, m.text>>
      firsts == {i \in 1..Len(all) :
                   \A j \in 1..(i - 1) : Key(all[j]) # Key(all[i])}
      LastOf(i) == CHOOSE j \in 1..Len(all) :
                     /\ Key(all[j]) = Key(all[i])
                     /\ \A k \in (j + 1)..Len(all) : Key(all[k]) # Key(all[i])
      marked == [i \in 1..Len(all) |->
                   IF i \in firsts THEN <<all[LastOf(i)]>> ELSE <<>>]
  IN Flatten(marked)

\* importBackup with a backup that holds one chat and no API key, and the
\* reload of the page after it; one backup is imported, before anything else.
ImportBackup(backup, replace) ==
  /\ ~mounted
  /\ mounts = 0
  /\ lastCall.op = "init"
  /\ LET target == IF backup.bank = "_legacy" THEN LegacyKey
                   ELSE CompositeKey
         cleared == IF replace THEN [k \in StoreKeys |-> <<>>] ELSE store
         merged == IF cleared[target] # <<>>
                     THEN MergeMessages(JsonParse(cleared[target][1]),
                                        backup.messages)
                     ELSE backup.messages
     IN store' = SetItem(cleared, target, merged)
  /\ writes' = <<>>
  /\ apiKey' = IF replace THEN FALSE ELSE apiKey
  /\ lastCall' = Call("import", TRUE)
  /\ timer' = FALSE
  /\ streamBuffer' = <<>>
  /\ UNCHANGED <<pvars, mode, bankId, mounted, history, loading, exLive,
                 exNewHistory, exCleared, exRetry, delivered, lastPayload, sends, mounts>>
  /\ UNCHANGED <<request, prompt>>

\* The steps of a session with the chat: everything but an import.
SessionNext ==
  \/ Mount
  \/ Unmount
  \/ \E text \in UserTexts : SendMessage(text)
  \/ RetryLastMessage
  \/ \E confirmed \in BOOLEAN : ClearChatHistory(confirmed)
  \/ \E body \in ChatBodies : FetchOk(body)
  \/ FetchFail
  \/ \E n \in 1..Len(rest) : ReadChunk(n)
  \/ ReadEnd
  \/ ReadFail
  \/ MockTick
  \/ AnimationFrame

Next ==
  \/ SessionNext
  \/ \E backup \in Backups, replace \in BOOLEAN :
       ImportBackup(backup, replace)

Spec == Init /\ [][Next]_vars

\* The chat with the conversations it wrote itself, no backup imported.
SpecSession == Init /\ [][SessionNext]_vars

\* --------------------------------------------------- sanitizeMessageContent

\* Longest message content, in UTF-16 code units, that SpecSanitize enumerates.
MaxText == 3

Tab == "\t"

\* The code units of a content: a letter, the progress marker, a high and a
\* low surrogate, the newline, the tab and another control character.
Units == {"a", Marker, "HI", "LO", NL, Tab, "x01"}

IsHigh(c) == c = "HI"
IsLow(c) == c = "LO"
IsSurrogate(c) == IsHigh(c) \/ IsLow(c)

\* /[\u0000-\u001F\u007F-\u009F]/
IsControl(c) == c \in {NL, Tab, "x01"}

\* content.replace(marker, ''): only the first marker is removed.
RemoveFirstMarker(t) ==
  LET P == {i \in 1..Len(t) : t[i] = Marker}
  IN IF P = {} THEN t
     ELSE LET p == CHOOSE i \in P : \A j \in P : i <= j
          IN SubSeq(t, 1, p - 1) \o SubSeq(t, p + 1, Len(t))

\* content.replace(/marker/g, '')
RemoveMarker(t) == SelectSeq(t, LAMBDA c : c # Marker)

\* encoder.encode then decoder.decode: a surrogate pair is kept, a surrogate
\* that is not half of a pair becomes U+FFFD.
EncodeDecode(t) ==
  [i \in 1..Len(t) |->
     IF IsHigh(t[i])
       THEN (IF i < Len(t) /\ IsLow(t[i + 1]) THEN t[i] ELSE "FFFD")
     ELSE IF IsLow(t[i])
       THEN (IF i > 1 /\ IsHigh(t[i - 1]) THEN t[i] ELSE "FFFD")
     ELSE t[i]]

\* cleaned.replace(/[\uDC00-\uDFFF]/g, ''): only the low surrogates go.
RemoveLowSurrogates(t) == SelectSeq(t, LAMBDA c : ~IsLow(c))

\* cleaned.replace(/[\uD800-\uDFFF]/g, ''): the pattern has no u flag, so it
\* matches every surrogate code unit, paired or not.
RemoveSurrogates(t) == SelectSeq(t, LAMBDA c : ~IsSurrogate(c))

RemoveControls(t) == SelectSeq(t, LAMBDA c : ~IsControl(c))

\* sanitizeMessageContent: the try block, or the catch block when the try
\* block throws (`fallback`).
SanitizeMessageContent(content, fallback) ==
  IF content = <<>> THEN <<>>
  ELSE IF ~fallback
    THEN RemoveSurrogates(EncodeDecode(RemoveMarker(content)))
    ELSE RemoveControls(RemoveSurrogates(RemoveMarker(content)))

SanitizeInit ==
  /\ request \in [content : SeqsUpTo(Units, MaxText), fallback : BOOLEAN,
                   cleaned : {<<>>}]
  /\ frames = <<>>
  /\ rest = <<>>
  /\ decPending = <<>>
  /\ buffer = <<>>
  /\ emitted = <<>>
  /\ outcome = "idle"
  /\ mode = "delta"
  /\ bankId = "b1"
  /\ apiKey = TRUE
  /\ store = [k \in StoreKeys |-> <<>>]
  /\ ChatIdle
  /\ prompt = NoPrompt

\* streamChat cleans the content of a message of the payload.
CleanInStreamChat ==
  /\ request.cleaned = <<>>
  /\ request' = [request EXCEPT !.cleaned =
                   <<SanitizeMessageContent(request.content, request.fallback)>>]
  /\ UNCHANGED <<pvars, cvars, prompt>>

\* safeStringify cleans the content again before JSON.stringify.
CleanInSafeStringify ==
  /\ Len(request.cleaned) = 1
  /\ request' = [request EXCEPT !.cleaned =
                   Append(@, SanitizeMessageContent(@[1], request.fallback))]
  /\ UNCHANGED <<pvars, cvars, prompt>>

SanitizeNext == CleanInStreamChat \/ CleanInSafeStringify

SpecSanitize == SanitizeInit /\ [][SanitizeNext]_vars

\* ---------------------------------------------------------- buildSystemPrompt

\* A prompt is the sequence of its lines (the text is the lines joined by
\* newlines), a line the sequence of the strings it is concatenated from.

\* defaultRole, the headings and the closing instruction, in English.
DefaultRole == "You are a helpful computer science teacher."
BankHeading == "[bank]"
QuestionHeading == "[question]"
Closing == "Answer in Chinese, clearly; encourage the user."

\* The payloads: every optional field present and absent, every string empty
\* and not, every array empty and not.
BankMetas ==
  [title : {"T"}, description : {"", "d"},
   tags : {None, Some(<<>>), Some(<<"t", "u">>)}]

Options == <<[key |-> "A", text |-> "x"], [key |-> "B", text |-> "y"]>>

QuestionContexts ==
  [questionId : {"q1"}, stem : {"S"},
   options : {None, Some(<<>>), Some(Options)},
   userAnswer : {None, Some("A")},
   correctAnswer : {None, Some("B")},
   isCorrect : {None, Some(TRUE), Some(FALSE)},
   analysis : {"", "n"}]

AiSettings == [roleName : {"", "R"}, customPrompt : {"", "P"}]

Optional(S) == {None} \cup {Some(v) : v \in S}

\* aiSettings?.roleName ? `role: ${roleName}.` : defaultRole
UserRole(aiSettings) ==
  IF aiSettings # None /\ aiSettings[1].roleName # ""
    THEN <<"role: ", aiSettings[1].roleName, ".">>
    ELSE <<DefaultRole>>

\* aiSettings?.customPrompt ? `extra: ${customPrompt}` : ''
CustomInstruction(aiSettings) ==
  IF aiSettings # None /\ aiSettings[1].customPrompt # ""
    THEN <<"extra: ", aiSettings[1].customPrompt>>
    ELSE <<>>

\* tags.join(', ')
RECURSIVE Join(_)
Join(parts) ==
  IF Len(parts) <= 1 THEN parts
  ELSE <<Head(parts), ", ">> \o Join(Tail(parts))

\* The lines of the bank section of a bank that is there.
BankLines(b) ==
  <<<<BankHeading>>, <<"title: ", b.title>>>>
  \o (IF b.description # "" THEN <<<<"description: ", b.description>>>>
      ELSE <<>>)
  \o (IF b.tags # None /\ Len(b.tags[1]) > 0
        THEN <<<<"tags: ">> \o Join(b.tags[1])>>
        ELSE <<>>)
  \o <<<<>>>>

\* A bank section that keeps its heading when there is no bank.
BankSectionPlaceholder(bankMeta) ==
  IF bankMeta = None THEN <<<<BankHeading>>, <<>>>>
  ELSE BankLines(bankMeta[1])

\* if (bankMeta) { ... }
BankSection(bankMeta) ==
  IF bankMeta = None THEN <<>> ELSE BankLines(bankMeta[1])

\* JSON.stringify of an answer, a string.
JsonAnswer(a) == <<"\"", a, "\"">>

\* if (questionContext) { ... }
QuestionSection(questionContext) ==
  IF questionContext = None THEN <<>>
  ELSE LET q == questionContext[1]
       IN <<<<QuestionHeading>>, <<"id: ", q.questionId>>,
            <<"stem: ", q.stem>>>>
          \o (IF q.options # None /\ Len(q.options[1]) > 0
                THEN <<<<"options:">>>>
                     \o [i \in 1..Len(q.options[1]) |->
                          <<"  ", q.options[1][i].key, ". ",
                            q.options[1][i].text>>]
                ELSE <<>>)
          \o (IF q.userAnswer # None
                THEN <<<<"user answer: ">> \o JsonAnswer(q.userAnswer[1])>>
                ELSE <<>>)
          \o (IF q.correctAnswer # None
                THEN <<<<"correct answer: ">>
                       \o JsonAnswer(q.correctAnswer[1])>>
                ELSE <<>>)
          \o (IF q.isCorrect # None
                THEN <<<<"result: ",
                         IF q.isCorrect[1] THEN "correct" ELSE "wrong">>>>
                ELSE <<>>)
          \o (IF q.analysis # "" THEN <<<<"analysis: ", q.analysis>>>>
              ELSE <<>>)
          \o <<<<>>>>

\* `${userRole}\n${customInstruction}\n\n`, the two sections and the closing
\* instruction.
BuildSystemPrompt(payload) ==
  <<UserRole(payload.aiSettings), CustomInstruction(payload.aiSettings),
    <<>>>>
  \o BankSection(payload.bankMeta)
  \o QuestionSection(payload.questionContext)
  \o <<<<Closing>>>>

PromptInit ==
  /\ prompt \in [bankMeta : Optional(BankMetas),
                  questionContext : Optional(QuestionContexts),
                  aiSettings : Optional(AiSettings),
                  text : {<<>>}]
  /\ request = NoRequest
  /\ frames = <<>>
  /\ rest = <<>>
  /\ decPending = <<>>
  /\ buffer = <<>>
  /\ emitted = <<>>
  /\ outcome = "idle"
  /\ mode = "delta"
  /\ bankId = "b1"
  /\ apiKey = TRUE
  /\ store = [k \in StoreKeys |-> <<>>]
  /\ ChatIdle

\* streamChat builds the system content of the request.
BuildInStreamChat ==
  /\ prompt.text = <<>>
  /\ prompt' = [prompt EXCEPT !.text = BuildSystemPrompt(prompt)]
  /\ UNCHANGED <<pvars, cvars, request>>

PromptNext == BuildInStreamChat

SpecPrompt == PromptInit /\ [][PromptNext]_vars

\* ------------------------------------------------------------------ claims

\* The result of streamChat when the reader returns all of `bytes` as one
\* chunk and then done.
OneChunk(bytes) ==
  IF bytes = <<>> THEN [emitted |-> <<>>, outcome |-> "eof"]
  ELSE LET it == ReadIteration(<<>>, <<>>, bytes)
       IN [emitted |-> it.deltas,
           outcome |-> IF it.done THEN "sentinel" ELSE "eof"]

\* C1: whatever the chunk boundaries, when streamChat resolves the deltas it
\* handed to onDelta and the way it ended (sentinel or end of stream) are
\* those of the same bytes read as a single chunk.
C1_ChunkIndependence ==
  outcome \in {"sentinel", "eof"} =>
    [emitted |-> emitted, outcome |-> outcome] = OneChunk(Delivered)

\* C1 witness: a body of two deltas, the first a two-byte character, read to
\* the end of the stream.
C1_Witness ==
  /\ outcome = "eof"
  /\ rest = <<>>
  /\ emitted = <<<<"E9">>, <<"a">>>>

\* C2: in the delta variant, what flushStreamBuffer has applied followed by
\* what the buffer still holds is the concatenation of the deltas given to
\* appendStreamDelta, in arrival order; once the exchange has completed, after
\* the final flushStreamBuffer, the buffer is empty and everything was applied.
C2_BatchingConservation ==
  mode = "delta" =>
    /\ delivered \o streamBuffer = Flatten(emitted)
    /\ outcome \in {"sentinel", "eof"} =>
         streamBuffer = <<>> /\ delivered = Flatten(emitted)

\* C2 witness: a completed exchange of the delta variant with three deltas.
C2_Witness ==
  /\ mode = "delta"
  /\ outcome = "sentinel"
  /\ Len(emitted) = 3
  /\ streamBuffer = <<>>
  /\ delivered = <<"H", "e", "l", "l", "o", ",", " ", "w", "o", "r", "l", "d", "!">>

\* C3: in the snapshot variant, when an exchange has completed, the payload of
\* the last callback invocation is the concatenation of all deltas parsed from
\* the stream.
C3_SnapshotFinalPayload ==
  (mode = "snapshot" /\ outcome \in {"sentinel", "eof"} /\ emitted # <<>>) =>
    lastPayload = Flatten(emitted)

\* The last message of the conversation stored under the composite key.
StoredLast == Last(JsonParse(store[CompositeKey][1]))

\* C4: when the stream reaches the sentinel in an exchange that nothing
\* disturbed (its component is mounted and still shows the streaming message),
\* the stored conversation ends with an assistant message of status done whose
\* text is the concatenation of the deltas, without the progress marker.
C4_EndToEndSuccess ==
  [][(/\ outcome = "reading"
      /\ outcome' = "sentinel"
      /\ exLive
      /\ IsStreamingLast(history))
     => (/\ store'[CompositeKey] # <<>>
         /\ StoredLast'.role = "model"
         /\ StoredLast'.status = "done"
         /\ StoredLast'.text = Flatten(emitted'))]_vars

\* C5: a call of sendMessage while loading is true changes neither the
\* conversation in memory nor the store, and starts no request.
C5_SingleInFlight ==
  [][(mounted /\ loading /\ lastCall'.op = "send" /\ lastCall' # lastCall)
     => (/\ history' = history
         /\ store' = store
         /\ sends' = sends
         /\ loading' = loading
         /\ <<frames, rest, decPending, buffer, emitted, outcome>>' =
              <<frames, rest, decPending, buffer, emitted, outcome>>)]_vars

\* C5 witness: sendMessage was called with a non-blank text while the exchange
\* of the mounted component was in flight, and was turned down.
C5_Witness ==
  /\ lastCall = CallWith("send", <<"r", " ">>, FALSE)
  /\ mounted
  /\ loading
  /\ exLive
  /\ InFlight

\* The conversation has the shape [.., U1, A1, U2, A2(error)].
RetryShape(h) ==
  /\ Len(h) >= 4
  /\ h[Len(h)].role = "model" /\ h[Len(h)].status = "error"
  /\ h[Len(h) - 1].role = "user"
  /\ h[Len(h) - 2].role = "model"
  /\ h[Len(h) - 3].role = "user"

\* C6: on a conversation [.., U1, A1, U2, A2(error)] with nothing in flight,
\* retryLastMessage passes the text of U2 to sendMessage, and what it saved
\* before the new exchange began is the conversation up to A1.
C6_RetryTrims ==
  [][(/\ mounted
      /\ ~loading
      /\ RetryShape(history)
      /\ lastCall'.op = "retry"
      /\ sends' = sends + 1)
     => (/\ lastCall'.text = history[Len(history) - 1].text
         /\ writes' = <<SubSeq(history, 1, Len(history) - 2)>>)]_vars

\* The deltas of the well-formed delta frames before the first sentinel.
RECURSIVE ExpectedDeltas(_)
ExpectedDeltas(fs) ==
  IF fs = <<>> \/ Head(fs).kind = "done" THEN <<>>
  ELSE (IF Head(fs).kind = "delta" THEN <<Head(fs).content>> ELSE <<>>)
       \o ExpectedDeltas(Tail(fs))

HasSentinel(fs) == \E i \in 1..Len(fs) : fs[i].kind = "done"

\* C7: a line whose payload is not JSON emits nothing and ends nothing: when
\* streamChat resolves at the sentinel, or at the end of a body read in full,
\* it has emitted exactly the contents of the well-formed delta frames before
\* the sentinel, in order; and a body read in full that holds a sentinel ends
\* at the sentinel unless the transport failed.
C7_MalformedResilience ==
  /\ (outcome = "sentinel" \/ (outcome = "eof" /\ rest = <<>>)) =>
       emitted = ExpectedDeltas(frames)
  /\ (rest = <<>> /\ HasSentinel(frames) /\ outcome # "error") =>
       outcome = "sentinel"

\* C7 witness: a delta, a malformed line, a delta and the sentinel were read,
\* and streamChat resolved at the sentinel with both deltas emitted.
C7_Witness ==
  /\ frames = MalformedBody
  /\ outcome = "sentinel"
  /\ emitted = <<<<"a">>, <<"E9">>>>

\* C8: when streamChat rejects while a component is mounted, the conversation
\* in memory and the stored one are both newHistory (the history before the
\* send and the user message) followed by one assistant message of status
\* error.
C8_TransportFailure ==
  [][(InFlight /\ outcome' = "error" /\ mounted)
     => (/\ history' # <<>>
         /\ Last(history').role = "model"
         /\ Last(history').status = "error"
         /\ history' = Append(exNewHistory, Last(history'))
         /\ store'[CompositeKey] = <<JsonStringify(history')>>)]_vars

\* C9: after the load effect no message of the conversation in memory has
\* status streaming.
C9_LoadNormalizes ==
  lastCall.op = "mount" =>
    \A i \in 1..Len(history) : history[i].status # "streaming"

\* C10: when the component mounts with a bankId, no record under the composite
\* key and a record under the legacy key, the conversation in memory is the
\* legacy record.
C10_LegacyFallback ==
  [][(/\ ~mounted
      /\ mounted'
      /\ bankId # ""
      /\ store[CompositeKey] = <<>>
      /\ store[LegacyKey] # <<>>)
     => history' = JsonParse(store[LegacyKey][1])]_vars

StoresTransient ==
  \E k \in StoreKeys : store[k] # <<>> /\
    \E i \in 1..Len(store[k][1]) : store[k][1][i][4] \in {"streaming", "pending"}

\* C12: in every state reached by open, send, delta, frame, finish, error,
\* retry, clear and close steps, no stored message has status streaming or
\* pending.
C12_NoTransientStored == ~StoresTransient

\* C12 witness: after a send that failed and a retry that completed, the store
\* holds the error message and the answer, and nothing transient.
C12_Witness ==
  /\ sends = 2
  /\ lastCall.op \in {"read", "end", "mock"}
  /\ outcome \in {"sentinel", "eof"}
  /\ ~StoresTransient
  /\ store[CompositeKey] # <<>>
  /\ store[CompositeKey][1] # <<>>
  /\ StoredLast.status = "done"
  /\ \E i \in 1..Len(store[CompositeKey][1]) :
       store[CompositeKey][1][i][4] = "error"

\* C13: at most one message of the conversation in memory has status
\* streaming.
C13_OneStreaming ==
  Cardinality({i \in 1..Len(history) : history[i].status = "streaming"}) <= 1

\* C14: whenever the conversation in memory is non-empty, its first message
\* is the greeting.
C14_GreetingFirst ==
  (mounted /\ history # <<>>) =>
    (history[1].role = "model" /\ history[1].text = Greeting)

\* The last step ran flushStreamBuffer to its end: the final flush of a
\* completed exchange of the delta variant.
FinalFlushRan ==
  /\ mode = "delta"
  /\ lastCall.op \in {"read", "end", "mock"}
  /\ outcome \in {"sentinel", "eof"}

\* C15: when flushStreamBuffer has returned, the buffer is empty and no frame
\* request is pending.
C15_FlushLeavesNothing ==
  (FinalFlushRan \/ lastCall.op = "frame") => (streamBuffer = <<>> /\ ~timer)

\* C15 witness: the final flush of an exchange of three deltas ran, and the
\* streaming message has their whole text.
C15_Witness ==
  /\ FinalFlushRan
  /\ lastCall.op = "read"
  /\ Len(emitted) = 3
  /\ exLive
  /\ Last(history).text = Flatten(emitted)
  /\ streamBuffer = <<>>
  /\ ~timer

\* C16: no animation frame runs flushStreamBuffer for a component that has
\* been unmounted.
C16_NoFlushAfterTeardown == lastCall.op = "frame" => exLive

\* C17: a step of clearChatHistory with the confirmation declined leaves the
\* conversation in memory and the store as they were; with the confirmation
\* given it leaves the conversation in memory empty and no record under the
\* key of the conversation.
C17_ClearAfterConfirm ==
  [][(mounted /\ lastCall'.op = "clear")
     => IF lastCall'.accepted
          THEN history' = <<>> /\ store'[StorageKey(bankId)] = <<>>
          ELSE history' = history /\ store' = store]_vars

\* C17 witness: the conversation was cleared, with confirmation, after an
\* exchange that had been stored.
C17_Witness ==
  /\ lastCall = Call("clear", TRUE)
  /\ sends = 1
  /\ outcome \in {"sentinel", "eof", "error"}
  /\ history = <<>>
  /\ store[CompositeKey] = <<>>

\* The role, text and timestamp of the messages of a conversation, in order.
Core(h) == [i \in 1..Len(h) |-> <<h[i].role, h[i].text, h[i].timestamp>>]

HasUnpaired(t) ==
  \E i \in 1..Len(t) :
    \/ IsHigh(t[i]) /\ ~(i < Len(t) /\ IsLow(t[i + 1]))
    \/ IsLow(t[i]) /\ ~(i > 1 /\ IsHigh(t[i - 1]))

\* C20: no result of sanitizeMessageContent, and so no content of the
\* serialized request body, holds a progress marker or an unpaired surrogate.
C20_NoMarkerNoUnpaired ==
  \A i \in 1..Len(request.cleaned) :
    /\ \A j \in 1..Len(request.cleaned[i]) : request.cleaned[i][j] # Marker
    /\ ~HasUnpaired(request.cleaned[i])

\* C20 witness: a content with a marker and an unpaired low surrogate was
\* cleaned on the fallback path and its letter is what is left.
C20_Witness ==
  /\ request.content = <<Marker, "LO", "a">>
  /\ request.fallback
  /\ request.cleaned = <<<<"a">>, <<"a">>>>

\* The newlines and tabs of a content, in order.
Whitespace(t) == SelectSeq(t, LAMBDA c : c \in {NL, Tab})

\* C21: a result of sanitizeMessageContent holds no control character other
\* than newline and tab, and holds the newlines and tabs of the content.
C21_ControlsRemoved ==
  \A i \in 1..Len(request.cleaned) :
    /\ \A j \in 1..Len(request.cleaned[i]) :
         IsControl(request.cleaned[i][j]) =>
           request.cleaned[i][j] \in {NL, Tab}
    /\ Whitespace(request.cleaned[i]) = Whitespace(request.content)

\* C22: with no credential stored, streamChat throws the configuration error
\* before fetch is called: no request is made, no byte of a body is read and
\* onDelta is never called.
C22_NoKeyNoRequest ==
  ~apiKey =>
    /\ outcome \in {"called", "config"}
    /\ rest = Wire(frames)
    /\ emitted = <<>>

\* C22 witness: streamChat was called without a credential and threw the
\* configuration error.
C22_Witness ==
  /\ ~apiKey
  /\ outcome = "config"
  /\ frames = MalformedBody

\* The assistant messages of the stored conversations, other than the
\* greeting, that were written in this session (a stored conversation of
\* earlier sessions has timestamp 0).
StoredReplies ==
  { m \in UNION { {JsonParse(store[k][1])[i] :
                     i \in 1..Len(store[k][1])} :
                   k \in {q \in StoreKeys : store[q] # <<>>} } :
      m.role = "model" /\ m.timestamp > 0 /\ m.text # Greeting }

\* C23: with no credential stored, an exchange started by a send ends in the
\* configuration error, and no assistant message of the session, neither an
\* answer nor an error message, is stored during it or after it.
C23_NoKeyNoReply ==
  (~apiKey /\ sends > 0) =>
    /\ ~InFlight => outcome = "error"
    /\ StoredReplies = {}

\* The strings that lines of a prompt begin with.
FirstPieces(text) ==
  {text[i][1] : i \in {j \in 1..Len(text) : text[j] # <<>>}}

BankLabels == {BankHeading, "title: ", "description: ", "tags: "}

QuestionLabels ==
  {QuestionHeading, "id: ", "stem: ", "options:", "  ", "user answer: ",
   "correct answer: ", "result: ", "analysis: "}

PersonaLabels == {"role: ", "extra: "}

RECURSIVE UpToSentinel(_)
UpToSentinel(fs) ==
  IF fs = <<>> THEN <<>>
  ELSE IF Head(fs).kind = "done" THEN <<Head(fs)>>
  ELSE <<Head(fs)>> \o UpToSentinel(Tail(fs))

\* The reader has returned the sentinel line of the body, newline included.
SentinelProcessed ==
  /\ HasSentinel(frames)
  /\ Len(Delivered) >= Len(Wire(UpToSentinel(frames)))

\* C25: from the read that returns the end of the sentinel line on,
\* streamChat has resolved at the sentinel and what it has emitted is the
\* deltas of the frames before the sentinel: nothing of the lines that follow
\* the sentinel in that chunk, and nothing of what the body holds after it.
C25_SentinelEnds ==
  /\ SentinelProcessed =>
       (outcome = "sentinel" /\ emitted = ExpectedDeltas(frames))
  /\ outcome = "sentinel" => SentinelProcessed

\* C25 witness: a body with a delta frame after the sentinel; a read returned
\* both lines in one chunk, and nothing was emitted.
C25_Witness ==
  /\ frames = <<DoneFrame, DeltaFrame(<<"a">>)>>
  /\ rest = <<>>
  /\ outcome = "sentinel"
  /\ emitted = <<>>

\* The frames of a body whose lines the reader has returned in full, newline
\* included.
CompleteFrames ==
  LET K == {k \in 0..Len(frames) :
              Len(Wire(SubSeq(frames, 1, k))) <= Len(Delivered)}
  IN SubSeq(frames, 1, CHOOSE k \in K : \A j \in K : j <= k)

\* C26: when streamChat has resolved at the end of a stream, which is a
\* stream that ended before a sentinel line was returned in full, what it has
\* emitted is the deltas of the lines returned in full: the incomplete line
\* left in the buffer, the bytes returned after the last newline, emitted
\* nothing.
C26_TailDiscarded ==
  outcome = "eof" =>
    /\ ~SentinelProcessed
    /\ emitted = ExpectedDeltas(CompleteFrames)
    /\ Utf8(buffer) \o decPending
         = Slice(Delivered, Len(Wire(CompleteFrames)))

\* C26 witness: the stream ended after every byte of a delta frame but its
\* newline; streamChat resolved and emitted nothing.
C26_Witness ==
  /\ frames = <<DeltaFrame(<<"a">>)>>
  /\ rest = <<NL>>
  /\ buffer = FrameLine(DeltaFrame(<<"a">>))
  /\ outcome = "eof"
  /\ emitted = <<>>

\* The exchange that retryLastMessage began has completed with an answer, in
\* the component that began it, and the conversation was not cleared
\* meanwhile.
RetryCompleted ==
  /\ exRetry # <<>>
  /\ outcome \in {"sentinel", "eof"}

\* C27: when the exchange that retryLastMessage began on [.., U, A(error)]
\* has completed, the conversation in memory is the messages before U, one
\* user message with the text of U and one new assistant message of status
\* done: it holds no message of status error after the messages before U,
\* and the text of U once; and the stored conversation is the same.
C27_RetryEndState ==
  RetryCompleted =>
    LET kept == exRetry[1]
        n == Len(kept)
    IN /\ Len(history) = n + 1
       /\ SubSeq(history, 1, n - 1) = SubSeq(kept, 1, n - 1)
       /\ history[n].role = "user"
       /\ history[n].text = kept[n].text
       /\ history[n + 1].role = "model"
       /\ history[n + 1].status = "done"
       /\ store[StorageKey(bankId)] = <<JsonStringify(history)>>

\* C28: when clearChatHistory was confirmed after the exchange began, and the
\* exchange has finished, with an answer or with an error, in the component
\* that began it, the conversation in memory is empty and the store holds no
\* record of it.
C28_ClearedStaysCleared ==
  (exCleared /\ exLive /\ mounted
   /\ outcome \in {"sentinel", "eof", "error"}) =>
    /\ history = <<>>
    /\ store[StorageKey(bankId)] = <<>>

\* C29: retryLastMessage called while an exchange is in flight changes
\* nothing: the conversation in memory keeps its streaming placeholder, and
\* nothing is written to the store.
C29_RetryInFlightNoOp ==
  [][(mounted /\ loading /\ InFlight /\ lastCall'.op = "retry")
     => (/\ history' = history
         /\ writes' = <<>>
         /\ store' = store)]_vars

\* The code units of a text that are neither progress markers nor control
\* characters nor unpaired surrogates, in order; the halves of a surrogate
\* pair are among them.
Untouched(t) ==
  Flatten([i \in 1..Len(t) |->
             IF \/ t[i] = Marker
                \/ IsControl(t[i])
                \/ IsHigh(t[i]) /\ ~(i < Len(t) /\ IsLow(t[i + 1]))
                \/ IsLow(t[i]) /\ ~(i > 1 /\ IsHigh(t[i - 1]))
               THEN <<>> ELSE <<t[i]>>])

\* C30: the code units of a content that are neither progress markers nor
\* unpaired surrogates nor control characters, both halves of every surrogate
\* pair among them, are in every result of sanitizeMessageContent, in their
\* order, and nothing else is, but for control characters and the
\* replacement character written for an unpaired surrogate.
C30_OthersKept ==
  \A i \in 1..Len(request.cleaned) :
    Untouched(SelectSeq(request.cleaned[i], LAMBDA c : c # "FFFD"))
      = Untouched(request.content)

====
